---------------------------- MODULE Spec2Model ----------------------------
(***************************************************************************)
(* Model of src/main.py: the hourly scanner that fetches candle windows,   *)
(* computes RSI / ATR / Supertrend, detects pumps and Supertrend breakouts, *)
(* removes duplicates against the reported sets and sends the reports.      *)
(*                                                                         *)
(* Numbers.  Python floats are modelled in fixed point: a value v is the   *)
(* integer v * SCALE, sums and differences are exact and every division    *)
(* rounds to the nearest representable value (RDiv), as a float division   *)
(* rounds to the nearest float.                                            *)
(*                                                                         *)
(* Indices.  Sequences are 1-based here and 0-based in the source; At and  *)
(* Slice translate, so that idx, last_idx, check_idx keep the source's     *)
(* values.                                                                 *)
(***************************************************************************)
EXTENDS Integers, Sequences, FiniteSets, TLC

VARIABLES
    \* ---- the scanner process (main) --------------------------------------
    pc,                 \* position of the coordinating thread in main
    symbols,            \* get_usdt_pairs() result
    cycle,              \* number of the running scan cycle (1, 2, ...)
    clock,              \* hour of the last closed candle the exchange serves
    task,               \* per position in symbols: the future's state
    pumps,              \* check_all_symbols: local list pumps
    breakouts,          \* check_all_symbols: local list breakouts
    fresh_pumps,        \* main: fresh_pumps of the running cycle
    fresh_breakouts,    \* main: fresh_breakouts of the running cycle
    reported_pumps,     \* module global reported_pumps
    reported_breakouts, \* module global reported_breakouts
    send,               \* the running send_telegram call
    history,            \* per finished filter step: the cycle's fresh keys
    \* ---- calculate_rsi applied to bounded inputs -------------------------
    closes,             \* the close sequence given to calculate_rsi
    rsi_out,            \* its result
    \* ---- calculate_supertrend applied to bounded inputs ------------------
    win,                \* the candle window given to calculate_supertrend
    st_out,             \* its result on win
    roll,               \* state of one roll-forward pass over win
    \* ---- scan_last_candle applied to bounded inputs ----------------------
    sc_closed,          \* the closed candles the exchange holds
    sc_in,              \* the response of the klines request
    sc_out              \* scan_last_candle's result on sc_in

mainVars == <<pc, symbols, cycle, clock, task, pumps, breakouts, fresh_pumps,
              fresh_breakouts, reported_pumps, reported_breakouts, send, history>>
rsiVars  == <<closes, rsi_out>>
stVars   == <<win, st_out, roll>>
scVars   == <<sc_closed, sc_in, sc_out>>
vars     == <<mainVars, rsiVars, stVars, scVars>>

-----------------------------------------------------------------------------
(* Fixed-point arithmetic standing for float64.                             *)

SCALE == 1000

\* n / d for an integer d > 0, rounded to the nearest integer (half up).
RDiv(n, d) == (2 * n + d) \div (2 * d)

\* a / b for two fixed-point values, b # 0.
FDiv(a, b) == IF b > 0 THEN RDiv(a * SCALE, b) ELSE RDiv((0 - a) * SCALE, 0 - b)

\* a * b for two fixed-point values.
FMul(a, b) == RDiv(a * b, SCALE)

Max(a, b) == IF a >= b THEN a ELSE b
Min(a, b) == IF a <= b THEN a ELSE b
Abs(a)    == IF a >= 0 THEN a ELSE 0 - a

\* Python's None and a present value.
None    == <<>>
Some(v) == <<v>>

\* s[i] and s[:n] of the source.
At(s, i)    == s[i + 1]
Slice(s, n) == SubSeq(s, 1, n)
Last(s)     == s[Len(s)]

RECURSIVE SumSeq(_)
SumSeq(s) == IF s = <<>> THEN 0 ELSE s[1] + SumSeq(Tail(s))

\* A kline row [openTime, open, high, low, close, volume]; float(c[k]).
OpenTime(c) == c[1]
Open(c)     == c[2]
High(c)     == c[3]
Low(c)      == c[4]
Close(c)    == c[5]
Volume(c)   == c[6]

-----------------------------------------------------------------------------
(* calculate_rsi                                                            *)

PUMP_THRESHOLD == 3
RSI_PERIOD == 14

\* round(x, 2) of a fixed-point value.
Round2(x) == RDiv(x, SCALE \div 100) * (SCALE \div 100)

Changes(cl) == [i \in 1..(Len(cl) - 1) |-> cl[i + 1] - cl[i]]
Gains(cl)   == [i \in 1..(Len(cl) - 1) |-> Max(Changes(cl)[i], 0)]
\* Mutant of Losses: the size of every change counts as a loss.
Losses_Abs(cl) == [i \in 1..(Len(cl) - 1) |-> Abs(Changes(cl)[i])]
Losses(cl)  == [i \in 1..(Len(cl) - 1) |-> Max(0 - Changes(cl)[i], 0)]

\* avg_gain / avg_loss after the n first samples (n >= period): the mean of
\* the first period samples, then Wilder's smoothing of each later one.
RECURSIVE RsiAvg(_, _, _)
RsiAvg(samples, period, n) ==
    IF n = period
    THEN RDiv(SumSeq(Slice(samples, period)), period)
    ELSE RDiv(RsiAvg(samples, period, n - 1) * (period - 1) + samples[n], period)

RsiValue(avg_gain, avg_loss) ==
    IF avg_loss = 0
    THEN 100 * SCALE
    ELSE LET rs == FDiv(avg_gain, avg_loss)
         IN  Round2(100 * SCALE - FDiv(100 * SCALE, SCALE + rs))

calculate_rsi(cl, period) ==
    IF Len(cl) < period + 1
    THEN None
    ELSE Some(RsiValue(RsiAvg(Gains(cl), period, Len(cl) - 1),
                       RsiAvg(Losses(cl), period, Len(cl) - 1)))

-----------------------------------------------------------------------------
(* calculate_atr, calculate_supertrend                                      *)

ATR_PERIOD == 10
MULTIPLIER == 3

\* tr of candle i (0-based, i >= 1).
TrueRange(candles, i) ==
    LET high       == High(At(candles, i))
        low        == Low(At(candles, i))
        prev_close == Close(At(candles, i - 1))
    IN  Max(Max(high - low, Abs(high - prev_close)), Abs(low - prev_close))

TrueRanges(candles) == [k \in 1..(Len(candles) - 1) |-> TrueRange(candles, k)]

\* Mutant of AtrRma: the plain mean of the n first true ranges.
AtrRma_Sma(trs, period, n) == RDiv(SumSeq(Slice(trs, n)), n)

\* atr after the n first true ranges (n >= period).
RECURSIVE AtrRma(_, _, _)
AtrRma(trs, period, n) ==
    IF n = period
    THEN RDiv(SumSeq(Slice(trs, period)), period)
    ELSE RDiv(AtrRma(trs, period, n - 1) * (period - 1) + trs[n], period)

calculate_atr(candles, period) ==
    IF Len(candles) < period + 1
    THEN None
    ELSE Some(AtrRma(TrueRanges(candles), period, Len(candles) - 1))

\* The basic bands of candle idx: src -/+ multiplier * atr.
BasicUp(candles, atr_period, multiplier, idx) ==
    LET src == RDiv(High(At(candles, idx)) + Low(At(candles, idx)), 2)
        atr == calculate_atr(Slice(candles, idx + 1), atr_period)[1]
    IN  src - multiplier * atr

BasicDn(candles, atr_period, multiplier, idx) ==
    LET src == RDiv(High(At(candles, idx)) + Low(At(candles, idx)), 2)
        atr == calculate_atr(Slice(candles, idx + 1), atr_period)[1]
    IN  src + multiplier * atr

\* Mutant of RatchetUp: the lower band is always the basic one.
RatchetUp_Basic(up0, up1, prev_close) == up0

\* up (the lower band) of candle idx from its basic value up0, the previous
\* up1 and the previous close.
RatchetUp(up0, up1, prev_close) == IF prev_close > up1 THEN Max(up0, up1) ELSE up0

\* Mutant of RatchetDn: the comparison admits equality.
RatchetDn_NonStrict(dn0, dn1, prev_close) ==
    IF prev_close <= dn1 THEN Min(dn0, dn1) ELSE dn0

\* dn (the upper band) of candle idx.
RatchetDn(dn0, dn1, prev_close) == IF prev_close < dn1 THEN Min(dn0, dn1) ELSE dn0

\* Mutant of NextTrend: the comparisons admit equality.
NextTrend_NonStrict(prev_trend, close, prev_up, prev_dn) ==
    IF prev_trend = -1 /\ close >= prev_dn THEN 1
    ELSE IF prev_trend = 1 /\ close <= prev_up THEN -1
    ELSE prev_trend

\* trend of candle idx > atr_period from the previous trend and bands.
NextTrend(prev_trend, close, prev_up, prev_dn) ==
    IF prev_trend = -1 /\ close > prev_dn THEN 1
    ELSE IF prev_trend = 1 /\ close < prev_up THEN -1
    ELSE prev_trend

\* One pass of the loop body for candle idx, given the lists built so far.
StBody(lists, candles, atr_period, multiplier, idx) ==
    LET close      == Close(At(candles, idx))
        prev_close == Close(At(candles, idx - 1))
        up0 == BasicUp(candles, atr_period, multiplier, idx)
        dn0 == BasicDn(candles, atr_period, multiplier, idx)
        up1 == IF Len(lists.up_list) > 0 THEN Last(lists.up_list) ELSE up0
        dn1 == IF Len(lists.dn_list) > 0 THEN Last(lists.dn_list) ELSE dn0
        up  == RatchetUp(up0, up1, prev_close)
        dn  == RatchetDn(dn0, dn1, prev_close)
        trend == IF idx = atr_period
                 THEN 1
                 ELSE NextTrend(Last(lists.trend_list), close,
                                Last(lists.up_list), Last(lists.dn_list))
    IN  [up_list    |-> Append(lists.up_list, up),
         dn_list    |-> Append(lists.dn_list, dn),
         trend_list |-> Append(lists.trend_list, trend)]

\* up_list, dn_list, trend_list after the loop has handled atr_period..idx.
RECURSIVE StLoop(_, _, _, _)
StLoop(candles, atr_period, multiplier, idx) ==
    IF idx < atr_period
    THEN [up_list |-> <<>>, dn_list |-> <<>>, trend_list |-> <<>>]
    ELSE StBody(StLoop(candles, atr_period, multiplier, idx - 1),
                candles, atr_period, multiplier, idx)

\* (last_trend, prev_trend, last_up, last_dn, prev_up, prev_dn)
calculate_supertrend(candles, atr_period, multiplier) ==
    IF Len(candles) < atr_period + 1
    THEN [last_trend |-> None, prev_trend |-> None, last_up |-> None,
          last_dn |-> None, prev_up |-> None, prev_dn |-> None]
    ELSE LET l == StLoop(candles, atr_period, multiplier, Len(candles) - 1)
             n == Len(l.trend_list)
         IN  [last_trend |-> Some(l.trend_list[n]),
              prev_trend |-> Some(IF n > 1 THEN l.trend_list[n - 1] ELSE l.trend_list[n]),
              last_up    |-> Some(l.up_list[n]),
              last_dn    |-> Some(l.dn_list[n]),
              prev_up    |-> Some(IF n > 1 THEN l.up_list[n - 1] ELSE l.up_list[n]),
              prev_dn    |-> Some(IF n > 1 THEN l.dn_list[n - 1] ELSE l.dn_list[n])]

-----------------------------------------------------------------------------
(* scan_last_candle                                                         *)

MIN_CANDLES == 20
LOOKBACK_LIMIT == 250
MIN_CHECK_IDX == 15
MS_PER_HOUR == 3600000

\* strftime("%Y-%m-%d %H:00") of the open time in milliseconds: the hour.
HourOf(open_time) == open_time \div MS_PER_HOUR

\* ((close[i] - close[i-1]) / close[i-1]) * 100; close[i-1] # 0.
PctAt(candles, i) ==
    FDiv(Close(At(candles, i)) - Close(At(candles, i - 1)),
         Close(At(candles, i - 1))) * 100

\* The loop "for i in range(last_idx - 1, max(0, last_idx - 250), -1)" from
\* i downwards: the distance found, 250 when the range ends, or the
\* ZeroDivisionError raised on the way.
RECURSIVE PumpLookBack(_, _, _)
PumpLookBack(candles, last_idx, i) ==
    IF i <= Max(0, last_idx - LOOKBACK_LIMIT)
    THEN [raised |-> FALSE, since |-> LOOKBACK_LIMIT]
    ELSE IF Close(At(candles, i - 1)) = 0
    THEN [raised |-> TRUE, since |-> 0]
    ELSE IF PctAt(candles, i) >= PUMP_THRESHOLD * SCALE
    THEN [raised |-> FALSE, since |-> last_idx - i]
    ELSE PumpLookBack(candles, last_idx, i - 1)

\* The flip test applied to a calculate_supertrend result.
IsBreakout(st) ==
    /\ st.last_trend # None
    /\ st.prev_trend # None
    /\ st.prev_trend = Some(-1)
    /\ st.last_trend = Some(1)

\* The loop "for look_back in range(1, min(250, last_idx))" from look_back
\* upwards.
RECURSIVE BreakoutLookBack(_, _, _)
BreakoutLookBack(candles, last_idx, look_back) ==
    IF look_back >= Min(LOOKBACK_LIMIT, last_idx)
    THEN LOOKBACK_LIMIT
    ELSE LET check_idx == last_idx - look_back
         IN  IF check_idx < MIN_CHECK_IDX
             THEN LOOKBACK_LIMIT
             ELSE IF IsBreakout(calculate_supertrend(Slice(candles, check_idx + 1),
                                                     ATR_PERIOD, MULTIPLIER))
             THEN look_back
             ELSE BreakoutLookBack(candles, last_idx, look_back + 1)

NoResult == [pump |-> None, breakout |-> None]

\* Mutant of LastIdx: the final element of the window is evaluated.
LastIdx_Final(candles) == Len(candles) - 1

\* Mutant of OldRedLine: the other band (up) of the previous candle.
OldRedLine_Up(st) == st.prev_up[1]

\* old_red_line and new_green_line of a breakout.
OldRedLine(st)   == st.prev_dn[1]
NewGreenLine(st) == st.last_up[1]

\* Mutant of Distance: the distance is measured from the close to the line.
Distance_Reversed(close, line) == FDiv(line - close, line) * 100

\* red_distance / green_distance: ((close - line) / line) * 100; line # 0.
Distance(close, line) == FDiv(close - line, line) * 100

\* The index of the candle scan_last_candle evaluates.
LastIdx(candles) == Len(candles) - 2

\* The body of the try block once the window has passed the length test.
\* A ZeroDivisionError anywhere in it is caught by the except clause, which
\* returns (None, None).
ScanWindow(symbol, candles) ==
    LET last_idx    == LastIdx(candles)
        last_candle == At(candles, last_idx)
        prev_candle == At(candles, last_idx - 1)
        hour        == HourOf(OpenTime(last_candle))
        prev_close  == Close(prev_candle)
        open_p      == Open(last_candle)
        close       == Close(last_candle)
        volume      == Volume(last_candle)
        vol_usdt    == FMul(open_p, volume)
    IN  IF prev_close = 0 THEN NoResult ELSE
    LET pct      == PctAt(candles, last_idx)
        ma_start == Max(0, last_idx - 19)
        ma_vol   == [k \in 1..(last_idx + 1 - ma_start) |->
                        FMul(Open(At(candles, ma_start + k - 1)),
                             Volume(At(candles, ma_start + k - 1)))]
        ma       == RDiv(SumSeq(ma_vol), Len(ma_vol))
        vm       == IF ma > 0 THEN FDiv(vol_usdt, ma) ELSE SCALE
        all_closes == [k \in 1..(last_idx + 1) |-> Close(candles[k])]
        rsi      == calculate_rsi(all_closes, RSI_PERIOD)
        st       == calculate_supertrend(Slice(candles, last_idx + 1),
                                         ATR_PERIOD, MULTIPLIER)
        is_pump  == pct >= PUMP_THRESHOLD * SCALE
        look     == PumpLookBack(candles, last_idx, last_idx - 1)
        pump_result ==
            IF is_pump
            THEN Some([symbol |-> symbol, pct |-> pct, close |-> close,
                       vol_usdt |-> vol_usdt, vm |-> vm, rsi |-> rsi,
                       candles_since_last |-> look.since, hour |-> hour])
            ELSE None
    IN  IF is_pump /\ look.raised THEN NoResult
        ELSE IF ~IsBreakout(st) THEN [pump |-> pump_result, breakout |-> None]
        ELSE
    LET candles_since_last == BreakoutLookBack(candles, last_idx, 1)
        old_red_line   == OldRedLine(st)
        new_green_line == NewGreenLine(st)
    IN  IF old_red_line = 0 \/ new_green_line = 0 THEN NoResult ELSE
        [pump |-> pump_result,
         breakout |-> Some(
            [symbol |-> symbol, pct |-> pct, close |-> close,
             vol_usdt |-> vol_usdt, vm |-> vm, rsi |-> rsi,
             direction |-> st.last_trend[1],
             old_red_line |-> old_red_line,
             red_distance |-> Distance(close, old_red_line),
             new_green_line |-> new_green_line,
             green_distance |-> Distance(close, new_green_line),
             candles_since_last |-> candles_since_last, hour |-> hour])]

\* The answers session.get(url).json() can give: the request or the decoding
\* raises, the exchange answers with an error object, or with a list of rows.
RespError == [kind |-> "error", rows |-> <<>>]
RespDict  == [kind |-> "dict", rows |-> <<>>]
RespList(rows) == [kind |-> "list", rows |-> rows]

\* Mutant of Unusable: the length test is missing.
Unusable_NoLength(resp) ==
    \/ resp.kind = "error"
    \/ resp.kind = "dict"
    \/ Len(resp.rows) = 0

\* Whether scan_last_candle gives up before evaluating anything.
Unusable(resp) ==
    \/ resp.kind = "error"
    \/ resp.kind = "dict"
    \/ Len(resp.rows) = 0
    \/ Len(resp.rows) < MIN_CANDLES

scan_last_candle(symbol, resp) ==
    IF Unusable(resp) THEN NoResult ELSE ScanWindow(symbol, resp.rows)

-----------------------------------------------------------------------------
(* calculate_rsi on bounded inputs.                                         *)

RsiMaxLen   == 5      \* longest close sequence
RsiMaxLevel == 4      \* closes are 1..RsiMaxLevel
RsiPeriodIn == 2      \* the period argument

RsiIdle == /\ pc = "rsi" /\ symbols = <<>> /\ cycle = 0 /\ clock = 0
           /\ task = <<>> /\ pumps = <<>> /\ breakouts = <<>>
           /\ fresh_pumps = <<>> /\ fresh_breakouts = <<>>
           /\ reported_pumps = {} /\ reported_breakouts = {}
           /\ send = <<>> /\ history = <<>>
           /\ win = <<>> /\ st_out = <<>> /\ roll = <<>>
           /\ sc_closed = <<>> /\ sc_in = <<>> /\ sc_out = <<>>

InitRSI == /\ RsiIdle
           /\ closes = <<>>
           /\ rsi_out = calculate_rsi(<<>>, RsiPeriodIn)

\* One more close arrives and calculate_rsi is applied to the sequence.
RsiAppend(x) ==
    /\ Len(closes) < RsiMaxLen
    /\ closes' = Append(closes, x * SCALE)
    /\ rsi_out' = calculate_rsi(closes', RsiPeriodIn)
    /\ UNCHANGED <<mainVars, stVars, scVars>>

NextRSI == \E x \in 1..RsiMaxLevel : RsiAppend(x)

SpecRSI == InitRSI /\ [][NextRSI]_vars

-----------------------------------------------------------------------------
(* calculate_supertrend on bounded inputs, next to one roll-forward pass    *)
(* that carries the ATR, the bands and the trend from candle to candle.     *)

StMaxLen == 7         \* longest window
StPeriod == 2         \* the atr_period argument

\* A candle of the bounded input set: prices in whole units.
Bar(t, o, h, l, c) == <<t * MS_PER_HOUR, o * SCALE, h * SCALE, l * SCALE, c * SCALE, SCALE>>

\* The shapes a candle at position t can take: flat at 1, flat at 2, a bar
\* from 1 to 2 closing low, the same bar closing high.
StCandles(t) == {Bar(t, 1, 1, 1, 1), Bar(t, 2, 2, 2, 2),
                 Bar(t, 2, 2, 1, 1), Bar(t, 1, 2, 1, 2)}

RollInit == [n |-> 0, prev_close |-> 0, tr_sum |-> 0, atr |-> 0,
             up |-> 0, dn |-> 0, trend |-> 0,
             prev_up |-> 0, prev_dn |-> 0, prev_trend |-> 0]

\* The roll-forward pass takes candle c as candle number r.n.
RollStep(r, c, atr_period, multiplier) ==
    LET idx == r.n
        tr  == Max(Max(High(c) - Low(c), Abs(High(c) - r.prev_close)),
                   Abs(Low(c) - r.prev_close))
        tr_sum == IF idx >= 1 /\ idx <= atr_period THEN r.tr_sum + tr ELSE r.tr_sum
        atr == IF idx < atr_period THEN 0
               ELSE IF idx = atr_period THEN RDiv(tr_sum, atr_period)
               ELSE RDiv(r.atr * (atr_period - 1) + tr, atr_period)
        src == RDiv(High(c) + Low(c), 2)
        up0 == src - multiplier * atr
        dn0 == src + multiplier * atr
        up1 == IF idx = atr_period THEN up0 ELSE r.up
        dn1 == IF idx = atr_period THEN dn0 ELSE r.dn
        up  == RatchetUp(up0, up1, r.prev_close)
        dn  == RatchetDn(dn0, dn1, r.prev_close)
        trend == IF idx = atr_period THEN 1
                 ELSE NextTrend(r.trend, Close(c), r.up, r.dn)
    IN  IF idx < atr_period
        THEN [r EXCEPT !.n = idx + 1, !.prev_close = Close(c), !.tr_sum = tr_sum]
        ELSE [n |-> idx + 1, prev_close |-> Close(c), tr_sum |-> tr_sum, atr |-> atr,
              up |-> up, dn |-> dn, trend |-> trend,
              prev_up    |-> IF idx = atr_period THEN up ELSE r.up,
              prev_dn    |-> IF idx = atr_period THEN dn ELSE r.dn,
              prev_trend |-> IF idx = atr_period THEN trend ELSE r.trend]

StIdle == /\ pc = "supertrend" /\ symbols = <<>> /\ cycle = 0 /\ clock = 0
          /\ task = <<>> /\ pumps = <<>> /\ breakouts = <<>>
          /\ fresh_pumps = <<>> /\ fresh_breakouts = <<>>
          /\ reported_pumps = {} /\ reported_breakouts = {}
          /\ send = <<>> /\ history = <<>>
          /\ closes = <<>> /\ rsi_out = <<>>
          /\ sc_closed = <<>> /\ sc_in = <<>> /\ sc_out = <<>>

InitST == /\ StIdle
          /\ win = <<>>
          /\ roll = RollInit
          /\ st_out = calculate_supertrend(<<>>, StPeriod, MULTIPLIER)

\* One more candle closes: the pass rolls forward by it and
\* calculate_supertrend is applied to the whole window again.
StAppend(c) ==
    /\ Len(win) < StMaxLen
    /\ win' = Append(win, c)
    /\ roll' = RollStep(roll, c, StPeriod, MULTIPLIER)
    /\ st_out' = calculate_supertrend(win', StPeriod, MULTIPLIER)
    /\ UNCHANGED <<mainVars, rsiVars, scVars>>

NextST == \E c \in StCandles(Len(win)) : StAppend(c)

SpecST == InitST /\ [][NextST]_vars

-----------------------------------------------------------------------------
(* Properties of calculate_supertrend (checked under SpecST).               *)

\* The lists calculate_supertrend builds for win; entry k belongs to candle
\* StPeriod + k - 1.  dn_list holds the upper band, up_list the lower band.
StLists == StLoop(win, StPeriod, MULTIPLIER, Len(win) - 1)
StEvaluated == Len(win) >= StPeriod + 1
StIdx(k) == StPeriod + k - 1

\* C4: the direction is +1 at the first evaluable index; afterwards it turns
\* from -1 to +1 exactly when the close is strictly above the previous upper
\* band, from +1 to -1 exactly when the close is strictly below the previous
\* lower band, and otherwise keeps its value (so a close equal to the
\* previous band never flips it).
C4_DirectionRule ==
    StEvaluated =>
        LET L == StLists
        IN  /\ L.trend_list[1] = 1
            /\ \A k \in 2..Len(L.trend_list) :
                 LET close == Close(At(win, StIdx(k)))
                 IN  /\ L.trend_list[k] \in {-1, 1}
                     /\ L.trend_list[k - 1] = -1 =>
                            (L.trend_list[k] = 1 <=> close > L.dn_list[k - 1])
                     /\ L.trend_list[k - 1] = 1 =>
                            (L.trend_list[k] = -1 <=> close < L.up_list[k - 1])

\* A window in which a close equal to the previous lower band left the
\* direction +1, a later close below the lower band turned it to -1 and a
\* still later close above the upper band turned it back to +1.
C4_Witness ==
    /\ StEvaluated
    /\ LET L == StLists
       IN  /\ \E k \in 2..Len(L.trend_list) :
                L.trend_list[k - 1] = -1 /\ L.trend_list[k] = 1
           /\ \E k \in 2..Len(L.trend_list) :
                L.trend_list[k - 1] = 1 /\ L.trend_list[k] = -1
           /\ \E k \in 2..Len(L.trend_list) :
                /\ L.trend_list[k - 1] = 1 /\ L.trend_list[k] = 1
                /\ Close(At(win, StIdx(k))) = L.up_list[k - 1]

\* C5 as stated: after the first evaluable index the upper band is the basic
\* upper band if the previous close is above the previous upper band and
\* min(basic, previous) otherwise (equality included); symmetrically the
\* lower band with max and the opposite comparison.
C5_AsStated ==
    StEvaluated =>
        LET L == StLists
        IN  \A k \in 2..Len(L.trend_list) :
             LET prev_close == Close(At(win, StIdx(k) - 1))
                 basicUpper == BasicDn(win, StPeriod, MULTIPLIER, StIdx(k))
                 basicLower == BasicUp(win, StPeriod, MULTIPLIER, StIdx(k))
             IN  /\ L.dn_list[k] = IF prev_close > L.dn_list[k - 1]
                                   THEN basicUpper
                                   ELSE Min(basicUpper, L.dn_list[k - 1])
                 /\ L.up_list[k] = IF prev_close < L.up_list[k - 1]
                                   THEN basicLower
                                   ELSE Max(basicLower, L.up_list[k - 1])

\* C5 amended: the upper band is min(basic, previous) if the previous close
\* is strictly below the previous upper band and the basic upper band
\* otherwise; the lower band is max(basic, previous) if the previous close
\* is strictly above the previous lower band and the basic lower band
\* otherwise.  A previous close equal to the previous band gives the basic
\* band.
C5_BandRule ==
    StEvaluated =>
        LET L == StLists
        IN  \A k \in 2..Len(L.trend_list) :
             LET prev_close == Close(At(win, StIdx(k) - 1))
                 basicUpper == BasicDn(win, StPeriod, MULTIPLIER, StIdx(k))
                 basicLower == BasicUp(win, StPeriod, MULTIPLIER, StIdx(k))
             IN  /\ L.dn_list[k] = IF prev_close < L.dn_list[k - 1]
                                   THEN Min(basicUpper, L.dn_list[k - 1])
                                   ELSE basicUpper
                 /\ L.up_list[k] = IF prev_close > L.up_list[k - 1]
                                   THEN Max(basicLower, L.up_list[k - 1])
                                   ELSE basicLower

\* A window in which a previous close equal to the previous upper band is
\* followed by a basic upper band above it, and in which an upper band was
\* held down by the previous one.
C5_Witness ==
    /\ StEvaluated
    /\ LET L == StLists
       IN  /\ \E k \in 2..Len(L.trend_list) :
                /\ Close(At(win, StIdx(k) - 1)) = L.dn_list[k - 1]
                /\ BasicDn(win, StPeriod, MULTIPLIER, StIdx(k)) > L.dn_list[k - 1]
                /\ L.dn_list[k] > L.dn_list[k - 1]
           /\ \E k \in 2..Len(L.trend_list) :
                /\ Close(At(win, StIdx(k) - 1)) < L.dn_list[k - 1]
                /\ BasicDn(win, StPeriod, MULTIPLIER, StIdx(k)) > L.dn_list[k - 1]
                /\ L.dn_list[k] = L.dn_list[k - 1]

\* C9: at every index k >= atr_period, calculate_supertrend applied to the
\* prefix candles[0..k] returns the direction, previous direction, upper band
\* and lower band that the roll-forward pass holds after candle k.
C9_ScratchEqualsRollForward ==
    StEvaluated =>
        /\ st_out.last_trend = Some(roll.trend)
        /\ st_out.prev_trend = Some(roll.prev_trend)
        /\ st_out.last_dn = Some(roll.dn)
        /\ st_out.last_up = Some(roll.up)
        /\ st_out.prev_dn = Some(roll.prev_dn)
        /\ st_out.prev_up = Some(roll.prev_up)

\* A window of full length, several indices past the first evaluable one,
\* whose last candle flips the direction from -1 to +1 in both computations.
C9_Witness ==
    /\ Len(win) = StMaxLen
    /\ Len(win) > StPeriod + 2
    /\ st_out.last_trend = Some(1)
    /\ st_out.prev_trend = Some(-1)
    /\ roll.trend = 1
    /\ roll.prev_trend = -1
    /\ roll.atr > 0

-----------------------------------------------------------------------------
(* Properties of calculate_rsi (checked under SpecRSI).                     *)

StrictlyIncreasing(s) == \A i \in 1..(Len(s) - 1) : s[i] < s[i + 1]

\* The Wilder-smoothed average loss after the last sample: the seed mean of
\* the first period losses, smoothed by every later loss.
FinalAvgLoss == RsiAvg(Losses(closes), RsiPeriodIn, Len(closes) - 1)

\* C10: on a strictly increasing close sequence of at least period + 1
\* closes calculate_rsi returns 100.0; more generally it returns 100.0
\* whenever the final average loss is 0 and otherwise a value from 0 to 100.
C10_RsiBoundary ==
    Len(closes) >= RsiPeriodIn + 1 =>
        /\ StrictlyIncreasing(closes) => rsi_out = Some(100 * SCALE)
        /\ FinalAvgLoss = 0 => rsi_out = Some(100 * SCALE)
        /\ FinalAvgLoss # 0 =>
              /\ rsi_out # None
              /\ rsi_out[1] >= 0
              /\ rsi_out[1] <= 100 * SCALE

\* A strictly increasing sequence longer than period + 1 (so that the
\* smoothing step has run) on which 100.0 was returned.
C10_Witness ==
    /\ Len(closes) > RsiPeriodIn + 1
    /\ StrictlyIncreasing(closes)
    /\ rsi_out = Some(100 * SCALE)

-----------------------------------------------------------------------------
(* scan_last_candle on bounded inputs: a market that has been flat for      *)
(* ScPrefix candles and then moves between two price levels.                *)

ScPrefix    == 11     \* flat candles before the first move (indices 0..10)
ScMaxClosed == 19     \* most closed candles the exchange holds

HI  == 200 * SCALE
LO  == 20 * SCALE
DIP == 10750

Kline(t, o, h, l, c, v) == <<t * MS_PER_HOUR, o, h, l, c, v>>

\* The candles that can close at hour t after a close at prev_close: at HI
\* the market stays or drops to LO; at LO it stays, rises to HI, or rises to
\* HI after a dip below LO.
ScShapes(t, prev_close) ==
    IF prev_close = HI
    THEN {Kline(t, HI, HI, HI, HI, SCALE), Kline(t, HI, HI, LO, LO, 2 * SCALE)}
    ELSE {Kline(t, LO, LO, LO, LO, SCALE), Kline(t, LO, HI, LO, HI, 2 * SCALE),
          Kline(t, LO, HI, DIP, HI, 2 * SCALE)}

\* The still-forming candle a response can end with: nothing traded yet, a
\* candle that has already moved, and a row with a late open time and no
\* volume.
ScForming(t, prev_close) ==
    {Kline(t, prev_close, prev_close, prev_close, prev_close, SCALE),
     Kline(t, prev_close, HI + LO, DIP, LO + LO, 3 * SCALE),
     <<(t + 5) * MS_PER_HOUR + 60000, LO, LO, LO, LO, 0>>}

ScSymbol == "XUSDT"

ScIdle == /\ pc = "scan" /\ symbols = <<>> /\ cycle = 0 /\ clock = 0
          /\ task = <<>> /\ pumps = <<>> /\ breakouts = <<>>
          /\ fresh_pumps = <<>> /\ fresh_breakouts = <<>>
          /\ reported_pumps = {} /\ reported_breakouts = {}
          /\ send = <<>> /\ history = <<>>
          /\ closes = <<>> /\ rsi_out = <<>>
          /\ win = <<>> /\ st_out = <<>> /\ roll = <<>>

NotFetched == [kind |-> "none", rows |-> <<>>]

InitScan == /\ ScIdle
            /\ sc_closed = [k \in 1..ScPrefix |-> Kline(k - 1, HI, HI, HI, HI, SCALE)]
            /\ sc_in = NotFetched
            /\ sc_out = NoResult

\* One more candle closes at the exchange.
ScClose(c) ==
    /\ sc_in = NotFetched
    /\ Len(sc_closed) < ScMaxClosed
    /\ sc_closed' = Append(sc_closed, c)
    /\ UNCHANGED <<sc_in, sc_out, mainVars, rsiVars, stVars>>

\* scan_last_candle runs: the request answers with the closed candles and
\* the forming one.
ScFetch(forming) ==
    /\ sc_in = NotFetched
    /\ sc_in' = RespList(Append(sc_closed, forming))
    /\ sc_out' = scan_last_candle(ScSymbol, sc_in')
    /\ UNCHANGED <<sc_closed, mainVars, rsiVars, stVars>>

\* scan_last_candle runs: the request raises or answers with an error object.
ScFetchFail(resp) ==
    /\ sc_in = NotFetched
    /\ sc_in' = resp
    /\ sc_out' = scan_last_candle(ScSymbol, resp)
    /\ UNCHANGED <<sc_closed, mainVars, rsiVars, stVars>>

NextScan ==
    \/ \E c \in ScShapes(Len(sc_closed), Close(Last(sc_closed))) : ScClose(c)
    \/ \E f \in ScForming(Len(sc_closed), Close(Last(sc_closed))) : ScFetch(f)
    \/ \E r \in {RespError, RespDict} : ScFetchFail(r)

SpecScan == InitScan /\ [][NextScan]_vars

-----------------------------------------------------------------------------
(* main, get_usdt_pairs, check_all_symbols, send_telegram: the scanner      *)
(* process.  The worker threads of the pool run scan_last_candle, one task  *)
(* per symbol; the coordinating thread collects, filters, sends and sleeps. *)

MaxCycles == 2        \* scan cycles explored

MAX_RETRIES == 3

\* An excerpt of CUSTOM_TICKERS and t.upper() + "USDT" on it.
CUSTOM_TICKERS == <<"At", "Btc">>
PairName(t) == CASE t = "At"  -> "ATUSDT"
                 [] t = "Btc" -> "BTCUSDT"
                 [] OTHER     -> t

\* list(dict.fromkeys(s)): the first occurrence of every element, in order.
RECURSIVE Dedupe(_)
Dedupe(s) ==
    IF s = <<>> THEN <<>>
    ELSE LET rest == Dedupe(Slice(s, Len(s) - 1))
         IN  IF \E k \in 1..Len(rest) : rest[k] = Last(s)
             THEN rest
             ELSE Append(rest, Last(s))

Candidates == Dedupe([k \in 1..Len(CUSTOM_TICKERS) |-> PairName(CUSTOM_TICKERS[k])])

\* The sets of trading USDT symbols exchangeInfo can report.
ValidSets == {{}, {"BTCUSDT", "ETHUSDT"}, {"ATUSDT", "BTCUSDT", "ETHUSDT"}}

InValid(valid) == LET Test(c) == c \in valid IN SelectSeq(Candidates, Test)

\* A fetched window of 20 rows whose first candle opens at hour t0: flat at
\* HI, then the candles named by tail, then a forming candle.  "D" drops to
\* LO, "L" stays at LO, "R" rises to HI, "S" rises to HI after a dip.
ShapeOf(code, t) ==
    CASE code = "D" -> Kline(t, HI, HI, LO, LO, 2 * SCALE)
      [] code = "L" -> Kline(t, LO, LO, LO, LO, SCALE)
      [] code = "R" -> Kline(t, LO, HI, LO, HI, 2 * SCALE)
      [] code = "S" -> Kline(t, LO, HI, DIP, HI, 2 * SCALE)
      [] OTHER      -> Kline(t, HI, HI, HI, HI, SCALE)

MarketWindow(tail, t0) ==
    [k \in 1..MIN_CANDLES |->
        LET flat == MIN_CANDLES - 1 - Len(tail)
        IN  IF k <= flat \/ k = MIN_CANDLES
            THEN ShapeOf("F", t0 + k - 1)
            ELSE ShapeOf(tail[k - flat], t0 + k - 1)]

\* What the klines request of one task can answer while the exchange's
\* first candle opens at hour t0: a failure, an error object, a list that is
\* too short, a quiet market, a pump inside an uptrend, a pump with a
\* breakout, and a breakout whose new lower band is exactly 0.
Responses(t0) ==
    <<RespError, RespDict,
      RespList(Slice(MarketWindow(<<>>, t0), MIN_CANDLES - 1)),
      RespList(MarketWindow(<<>>, t0)),
      RespList(MarketWindow(<<"D", "S", "D", "R">>, t0)),
      RespList(MarketWindow(<<"D", "R">>, t0)),
      RespList(MarketWindow(<<"D", "S">>, t0))>>

\* scan_last_candle depends on its symbol and on the answer only: its values
\* on the answers above, computed once per symbol, first hour and answer.
ScanResults ==
    [k \in 1..Len(Candidates) |->
        [t0 \in 0..MaxCycles |->
            [r \in 1..Len(Responses(t0)) |->
                scan_last_candle(Candidates[k], Responses(t0)[r])]]]

ScanResultOf(symbol, t0, r) ==
    LET k == CHOOSE j \in 1..Len(Candidates) : Candidates[j] = symbol
    IN  ScanResults[k][t0][r]

\* Mutant of Gather: a task without a result empties the list.
Gather_Reset(list, res) == IF res # None THEN Append(list, res[1]) ELSE <<>>

\* "if pump_res: pumps.append(pump_res)"
Gather(list, res) == IF res # None THEN Append(list, res[1]) ELSE list

\* (p[0], p[7]) and (b[0], b[12]): symbol and hour.
KeyOf(r) == <<r.symbol, r.hour>>
\* Mutant of KeysOf: only the key of the first result is added.
KeysOf_FirstOnly(results) == IF results = <<>> THEN {} ELSE {<<results[1].symbol, results[1].hour>>}

\* Mutant of KeysOf: no key is added.
KeysOf_Nothing(results) == {}

KeysOf(results) == {KeyOf(results[k]) : k \in 1..Len(results)}

\* Mutant of FreshOf: nothing is filtered.
FreshOf_All(results, reported) == results

\* [p for p in pumps if key(p) not in reported]
FreshOf(results, reported) ==
    LET Test(r) == KeyOf(r) \notin reported IN SelectSeq(results, Test)

\* The running send_telegram call: attempt counts the passes of its loop
\* made so far, status is what requests.post did in the last pass, sleeping
\* tells that the call is inside time.sleep(2), waited that time.sleep(2) has
\* ended since the last pass, returned is the return value.
SendCall(alert_type) ==
    [alert_type |-> alert_type, attempt |-> 0, status |-> "none",
     sleeping |-> FALSE, waited |-> FALSE, returned |-> "none"]
NoSend == SendCall("none")
NewTask == [state |-> "submitted", resp |-> NotFetched, result |-> NoResult]

Init ==
    /\ pc = "start" /\ symbols = <<>> /\ cycle = 0 /\ clock = 0
    /\ task = <<>> /\ pumps = <<>> /\ breakouts = <<>>
    /\ fresh_pumps = <<>> /\ fresh_breakouts = <<>>
    /\ reported_pumps = {} /\ reported_breakouts = {}
    /\ send = NoSend /\ history = <<>>
    /\ closes = <<>> /\ rsi_out = <<>>
    /\ win = <<>> /\ st_out = <<>> /\ roll = <<>>
    /\ sc_closed = <<>> /\ sc_in = <<>> /\ sc_out = <<>>

Idle == UNCHANGED <<rsiVars, stVars, scVars>>

\* get_usdt_pairs answers; main returns when no symbol is loaded.
GetUsdtPairs(valid) ==
    /\ pc = "start"
    /\ symbols' = InValid(valid)
    /\ pc' = IF symbols' = <<>> THEN "exit" ELSE "scan"
    /\ UNCHANGED <<cycle, clock, task, pumps, breakouts, fresh_pumps, fresh_breakouts,
                   reported_pumps, reported_breakouts, send, history>>
    /\ Idle

\* get_usdt_pairs catches the exception of the exchangeInfo request.
GetUsdtPairsFail ==
    /\ pc = "start"
    /\ symbols' = <<>>
    /\ pc' = "exit"
    /\ UNCHANGED <<cycle, clock, task, pumps, breakouts, fresh_pumps, fresh_breakouts,
                   reported_pumps, reported_breakouts, send, history>>
    /\ Idle

\* check_all_symbols submits one task per symbol.
Dispatch ==
    /\ pc = "scan"
    /\ cycle < MaxCycles
    /\ cycle' = cycle + 1
    /\ task' = [i \in 1..Len(symbols) |-> NewTask]
    /\ pumps' = <<>>
    /\ breakouts' = <<>>
    /\ pc' = "collect"
    /\ UNCHANGED <<symbols, clock, fresh_pumps, fresh_breakouts,
                   reported_pumps, reported_breakouts, send, history>>
    /\ Idle

\* A worker runs scan_last_candle for symbol number i: the klines request
\* gets answer number r (or raises), the answer is evaluated and the future
\* completes.  The worker reads and writes nothing but its own task.
TaskRun(i, r) ==
    /\ pc = "collect"
    /\ task[i].state = "submitted"
    /\ task' = [task EXCEPT ![i] = [state  |-> "done", resp |-> Responses(clock)[r],
                                    result |-> ScanResultOf(symbols[i], clock, r)]]
    /\ UNCHANGED <<pc, symbols, cycle, clock, pumps, breakouts, fresh_pumps, fresh_breakouts,
                   reported_pumps, reported_breakouts, send, history>>
    /\ Idle

\* as_completed yields a completed future; its results are appended.
Collect(i) ==
    /\ pc = "collect"
    /\ task[i].state = "done"
    /\ task' = [task EXCEPT ![i].state = "collected"]
    /\ pumps' = Gather(pumps, task[i].result.pump)
    /\ breakouts' = Gather(breakouts, task[i].result.breakout)
    /\ UNCHANGED <<pc, symbols, cycle, clock, fresh_pumps, fresh_breakouts,
                   reported_pumps, reported_breakouts, send, history>>
    /\ Idle

\* Every future has been yielded.
AllCollected == \A i \in 1..Len(task) : task[i].state = "collected"

\* The pool shuts down and check_all_symbols returns pumps and breakouts; its
\* futures are gone.
ReturnResults ==
    /\ pc = "collect"
    /\ AllCollected
    /\ pc' = "filter"
    /\ task' = <<>>
    /\ UNCHANGED <<symbols, cycle, clock, pumps, breakouts, fresh_pumps,
                   fresh_breakouts, reported_pumps, reported_breakouts, send, history>>
    /\ Idle

\* main filters the new alerts and adds their keys to the reported sets.
FilterNew ==
    /\ pc = "filter"
    /\ fresh_pumps' = FreshOf(pumps, reported_pumps)
    /\ fresh_breakouts' = FreshOf(breakouts, reported_breakouts)
    /\ reported_pumps' = reported_pumps \cup KeysOf(fresh_pumps')
    /\ reported_breakouts' = reported_breakouts \cup KeysOf(fresh_breakouts')
    /\ history' = Append(history,
                         [pumps     |-> [k \in 1..Len(fresh_pumps') |-> KeyOf(fresh_pumps'[k])],
                          breakouts |-> [k \in 1..Len(fresh_breakouts') |->
                                            KeyOf(fresh_breakouts'[k])]])
    /\ pc' = "send_pump"
    /\ UNCHANGED <<symbols, cycle, clock, task, pumps, breakouts, send>>
    /\ Idle

\* Mutant of HasFresh: the report is sent whether or not the list is empty.
HasFresh_Always(fresh) == TRUE

\* "if fresh_pumps:" / "if fresh_breakouts:"; the report formatted from a
\* non-empty list is a non-empty string, so "if msg:" holds with it.
HasFresh(fresh) == fresh # <<>>

\* "if fresh_pumps:" holds: the report is formatted and send_telegram called.
SendPumpAlert ==
    /\ pc = "send_pump"
    /\ HasFresh(fresh_pumps)
    /\ send' = SendCall("PUMP")
    /\ pc' = "telegram_pump"
    /\ UNCHANGED <<symbols, cycle, clock, task, pumps, breakouts, fresh_pumps,
                   fresh_breakouts, reported_pumps, reported_breakouts, history>>
    /\ Idle

SkipPumpAlert ==
    /\ pc = "send_pump"
    /\ ~HasFresh(fresh_pumps)
    /\ pc' = "send_breakout"
    /\ UNCHANGED <<symbols, cycle, clock, task, pumps, breakouts, fresh_pumps,
                   fresh_breakouts, reported_pumps, reported_breakouts, send, history>>
    /\ Idle

SendBreakoutAlert ==
    /\ pc = "send_breakout"
    /\ HasFresh(fresh_breakouts)
    /\ send' = SendCall("BREAKOUT")
    /\ pc' = "telegram_breakout"
    /\ UNCHANGED <<symbols, cycle, clock, task, pumps, breakouts, fresh_pumps,
                   fresh_breakouts, reported_pumps, reported_breakouts, history>>
    /\ Idle

SkipBreakoutAlert ==
    /\ pc = "send_breakout"
    /\ ~HasFresh(fresh_breakouts)
    /\ pc' = "server_time"
    /\ UNCHANGED <<symbols, cycle, clock, task, pumps, breakouts, fresh_pumps,
                   fresh_breakouts, reported_pumps, reported_breakouts, send, history>>
    /\ Idle

\* Where main continues when send_telegram returns.
AfterSend == IF pc = "telegram_pump" THEN "send_breakout" ELSE "server_time"

\* What requests.post can do: answer with status 200, answer with another
\* status, raise.
Outcomes == {"200", "non200", "exception"}

\* Whether time.sleep(2) follows pass number attempt (0-based) of the loop:
\* only in the except clause, and not after the last pass.
BackoffAfter(outcome, attempt) ==
    outcome = "exception" /\ attempt < MAX_RETRIES - 1

\* Mutant of LoopEnds: one pass more than max_retries.
LoopEnds_OneMore(attempts_made) == attempts_made >= MAX_RETRIES + 1

\* range(max_retries) is exhausted after attempts_made passes.
LoopEnds(attempts_made) == attempts_made >= MAX_RETRIES

\* One pass of send_telegram's loop: requests.post answers with status 200
\* (return True), with another status, or raises; after the last pass the
\* function returns False.
TelegramAttempt(outcome) ==
    /\ pc \in {"telegram_pump", "telegram_breakout"}
    /\ send.returned = "none"
    /\ ~send.sleeping
    /\ send' = [send EXCEPT
                  !.attempt  = send.attempt + 1,
                  !.status   = outcome,
                  !.sleeping = BackoffAfter(outcome, send.attempt),
                  !.waited   = FALSE,
                  !.returned = IF outcome = "200" THEN "True"
                               ELSE IF LoopEnds(send.attempt + 1) THEN "False"
                               ELSE "none"]
    /\ UNCHANGED <<pc, symbols, cycle, clock, task, pumps, breakouts, fresh_pumps,
                   fresh_breakouts, reported_pumps, reported_breakouts, history>>
    /\ Idle

\* time.sleep(2) of the except clause ends.
TelegramBackoff ==
    /\ pc \in {"telegram_pump", "telegram_breakout"}
    /\ send.sleeping
    /\ send' = [send EXCEPT !.sleeping = FALSE, !.waited = TRUE]
    /\ UNCHANGED <<pc, symbols, cycle, clock, task, pumps, breakouts, fresh_pumps,
                   fresh_breakouts, reported_pumps, reported_breakouts, history>>
    /\ Idle

\* send_telegram returns to main, which drops the value.
TelegramReturn ==
    /\ pc \in {"telegram_pump", "telegram_breakout"}
    /\ send.returned # "none"
    /\ pc' = AfterSend
    /\ send' = NoSend
    /\ UNCHANGED <<symbols, cycle, clock, task, pumps, breakouts, fresh_pumps,
                   fresh_breakouts, reported_pumps, reported_breakouts, history>>
    /\ Idle

\* Mutant of AfterServerTime: a failed lookup ends main.
AfterServerTime_Raise(ok) == IF ok THEN "sleep" ELSE "exit"

\* Where main continues after get_binance_server_time: the lookup answers, or
\* its except clause falls back to time.time().
AfterServerTime(ok) == "sleep"

ServerTime(ok) ==
    /\ pc = "server_time"
    /\ pc' = AfterServerTime(ok)
    /\ UNCHANGED <<symbols, cycle, clock, task, pumps, breakouts, fresh_pumps,
                   fresh_breakouts, reported_pumps, reported_breakouts, send, history>>
    /\ Idle

\* time.sleep(sleep_time) ends; the exchange may have closed one more candle.
WakeUp(closed) ==
    /\ pc = "sleep"
    /\ clock' = clock + closed
    /\ pc' = "scan"
    /\ UNCHANGED <<symbols, cycle, task, pumps, breakouts, fresh_pumps,
                   fresh_breakouts, reported_pumps, reported_breakouts, send, history>>
    /\ Idle

Next ==
    \/ \E valid \in ValidSets : GetUsdtPairs(valid)
    \/ GetUsdtPairsFail
    \/ Dispatch
    \/ \E i \in 1..Len(task) : \E r \in 1..Len(Responses(clock)) : TaskRun(i, r)
    \/ \E i \in 1..Len(task) : Collect(i)
    \/ ReturnResults
    \/ FilterNew
    \/ SendPumpAlert
    \/ SkipPumpAlert
    \/ SendBreakoutAlert
    \/ SkipBreakoutAlert
    \/ \E outcome \in Outcomes : TelegramAttempt(outcome)
    \/ TelegramBackoff
    \/ TelegramReturn
    \/ \E ok \in BOOLEAN : ServerTime(ok)
    \/ \E closed \in {0, 1} : WakeUp(closed)

Spec == Init /\ [][Next]_vars

\* The coordinating thread and the pool's workers keep running: every request
\* has a timeout and every sleep ends, so a step that can be taken is taken.
SpecLive == Init /\ [][Next]_vars /\ WF_vars(Next)

-----------------------------------------------------------------------------
(* Properties of scan_last_candle (checked under SpecScan).                 *)

\* A list of at least 20 rows was fetched, so the window is evaluated.
ScEvaluated == sc_in.kind = "list" /\ Len(sc_in.rows) >= MIN_CANDLES

\* The lists of the Supertrend engine on the window up to the last closed
\* candle; their last entry belongs to that candle.
ScLists == StLoop(sc_closed, ATR_PERIOD, MULTIPLIER, Len(sc_closed) - 1)

\* The direction flips from -1 to +1 at the last closed candle.
ScFlip ==
    LET L == ScLists
        n == Len(L.trend_list)
    IN  n > 1 /\ L.trend_list[n - 1] = -1 /\ L.trend_list[n] = 1

\* pct of the last closed candle reaches the threshold.
ScPctReached ==
    LET i == Len(sc_closed) - 1
    IN  (Close(At(sc_closed, i)) - Close(At(sc_closed, i - 1))) * 100
            >= PUMP_THRESHOLD * Close(At(sc_closed, i - 1))

ScPositivePrices ==
    \A k \in 1..Len(sc_in.rows) :
        /\ Open(sc_in.rows[k]) > 0 /\ High(sc_in.rows[k]) > 0
        /\ Low(sc_in.rows[k]) > 0 /\ Close(sc_in.rows[k]) > 0

\* C3 as stated: for an evaluated window, a Breakout result is emitted if and
\* only if the direction is +1 at the last closed candle and -1 at the index
\* before it.
C3_AsStated == ScEvaluated => (sc_out.breakout # None <=> ScFlip)

\* C7 as stated: for a window of at least 20 candles with positive prices, a
\* Pump result is emitted if and only if pct >= 3 at the last closed candle,
\* whatever the Breakout evaluation of the same window does.
C7_AsStated ==
    (ScEvaluated /\ ScPositivePrices) => (sc_out.pump # None <=> ScPctReached)

\* C6: the result does not depend on the last element of the window: any
\* other forming candle in its place gives the same pump and breakout
\* results, and the time bucket of a result is the hour of the open time of
\* the second-to-last element.
C6_LastElementIgnored ==
    ScEvaluated =>
        LET n == Len(sc_in.rows)
        IN  /\ \A f \in ScForming(Len(sc_closed), Close(Last(sc_closed))) :
                  scan_last_candle(ScSymbol, RespList(Append(sc_closed, f))) = sc_out
            /\ sc_out.pump # None =>
                  sc_out.pump[1].hour = HourOf(OpenTime(sc_in.rows[n - 1]))
            /\ sc_out.breakout # None =>
                  sc_out.breakout[1].hour = HourOf(OpenTime(sc_in.rows[n - 1]))

\* A scan that returned both results on a window whose last element differs
\* from the last closed candle in open time, prices and volume.
C6_Witness ==
    /\ ScEvaluated
    /\ sc_out.pump # None
    /\ sc_out.breakout # None
    /\ LET n == Len(sc_in.rows)
       IN  /\ HourOf(OpenTime(sc_in.rows[n])) # HourOf(OpenTime(sc_in.rows[n - 1])) + 1
           /\ Close(sc_in.rows[n]) # Close(sc_in.rows[n - 1])
           /\ Volume(sc_in.rows[n]) # Volume(sc_in.rows[n - 1])

\* C8: every Breakout result carries as oldRedLine the upper band of the
\* index before the last closed candle and as newGreenLine the lower band of
\* the last closed candle, as the engine computes them on the window up to
\* that candle.
C8_BreakoutLines ==
    sc_out.breakout # None =>
        LET L == ScLists
            n == Len(L.trend_list)
        IN  /\ n > 1
            /\ sc_out.breakout[1].old_red_line = L.dn_list[n - 1]
            /\ sc_out.breakout[1].new_green_line = L.up_list[n]

\* A Breakout result on a window where the bands the two lines are taken
\* from differ from the other bands of the two candles.
C8_Witness ==
    /\ sc_out.breakout # None
    /\ LET L == ScLists
           n == Len(L.trend_list)
       IN  /\ L.dn_list[n - 1] # L.up_list[n - 1]
           /\ L.up_list[n - 1] # L.up_list[n]
           /\ L.up_list[n] # L.dn_list[n]
           /\ sc_out.breakout[1].old_red_line = L.dn_list[n - 1]
           /\ sc_out.breakout[1].new_green_line = L.up_list[n]

-----------------------------------------------------------------------------
(* Properties of main and check_all_symbols (checked under Spec).           *)

\* C1: over the scan cycles run so far, every (symbol, hour) key is among
\* the fresh pump results of at most one cycle and at most once within that
\* cycle; likewise for the fresh breakout results.
C1_AtMostOnce ==
    \A c1 \in 1..Len(history) : \A c2 \in 1..Len(history) :
        /\ \A k1 \in 1..Len(history[c1].pumps) : \A k2 \in 1..Len(history[c2].pumps) :
              history[c1].pumps[k1] = history[c2].pumps[k2] => (c1 = c2 /\ k1 = k2)
        /\ \A k1 \in 1..Len(history[c1].breakouts) :
           \A k2 \in 1..Len(history[c2].breakouts) :
              history[c1].breakouts[k1] = history[c2].breakouts[k2] => (c1 = c2 /\ k1 = k2)

\* The second cycle has found, on unchanged candle data, pump and breakout
\* results whose keys were fresh in the first cycle, and has filtered them.
C1_Witness ==
    /\ pc = "send_pump"
    /\ cycle = 2
    /\ Len(history) = 2
    /\ pumps # <<>>
    /\ breakouts # <<>>
    /\ \A k \in 1..Len(pumps) :
          \E j \in 1..Len(history[1].pumps) : history[1].pumps[j] = KeyOf(pumps[k])
    /\ \A k \in 1..Len(breakouts) :
          \E j \in 1..Len(history[1].breakouts) : history[1].breakouts[j] = KeyOf(breakouts[k])
    /\ fresh_pumps = <<>>
    /\ fresh_breakouts = <<>>

\* What scan_last_candle produces for symbol number i on its own, from the
\* answer its task received.
OwnResult(i) ==
    LET r == CHOOSE a \in 1..Len(Responses(clock)) : Responses(clock)[a] = task[i].resp
    IN  ScanResultOf(symbols[i], clock, r)

\* C2: when every task has completed and has been collected, so that
\* check_all_symbols returns, pumps and breakouts hold exactly the non-absent
\* results each symbol's scan_last_candle produces on its own, once per
\* symbol, whatever tasks failed and in whatever order the tasks completed;
\* a failing symbol contributes nothing.
C2_ExactAggregation ==
    (pc = "collect" /\ AllCollected) =>
        LET own          == [i \in 1..Len(symbols) |-> OwnResult(i)]
            WithPump     == {i \in 1..Len(symbols) : own[i].pump # None}
            WithBreakout == {i \in 1..Len(symbols) : own[i].breakout # None}
        IN  /\ Len(task) = Len(symbols)
            /\ \A i \in 1..Len(symbols) : task[i].result = own[i]
            /\ ENABLED ReturnResults
            /\ Len(pumps) = Cardinality(WithPump)
            /\ {pumps[k] : k \in 1..Len(pumps)} = {own[i].pump[1] : i \in WithPump}
            /\ Len(breakouts) = Cardinality(WithBreakout)
            /\ {breakouts[k] : k \in 1..Len(breakouts)} =
                  {own[i].breakout[1] : i \in WithBreakout}

\* Every task of a cycle is collected: the first symbol's evaluation raised
\* on a window of 20 candles (the division by a lower band of 0), the second
\* symbol produced both results and was collected.
C2_Witness ==
    /\ pc = "collect"
    /\ AllCollected
    /\ Len(symbols) = 2
    /\ ~Unusable(task[1].resp)
    /\ task[1].resp = RespList(MarketWindow(<<"D", "S">>, clock))
    /\ task[1].result = NoResult
    /\ task[2].result.pump # None
    /\ task[2].result.breakout # None
    /\ Len(pumps) = 1
    /\ Len(breakouts) = 1

-----------------------------------------------------------------------------
(* Insufficient history (checked under SpecScan).                           *)

\* The closes of the closed candles, as scan_last_candle collects them.
ScCloses == [k \in 1..Len(sc_closed) |-> Close(sc_closed[k])]

AllAbsent(st) ==
    /\ st.last_trend = None /\ st.prev_trend = None
    /\ st.last_up = None /\ st.last_dn = None
    /\ st.prev_up = None /\ st.prev_dn = None

NonePresent(st) ==
    /\ st.last_trend # None /\ st.prev_trend # None
    /\ st.last_up # None /\ st.last_dn # None
    /\ st.prev_up # None /\ st.prev_dn # None

\* C11: on every prefix of the closed candles, calculate_rsi is absent
\* exactly when fewer than period + 1 closes are given, calculate_atr and
\* calculate_supertrend are absent exactly when fewer than atr_period + 1
\* candles are given; and scan_last_candle returns no result, as a value,
\* for a fetched list of fewer than 20 rows.
C11_AbsentOnShortHistory ==
    /\ \A n \in 0..Len(sc_closed) :
          /\ calculate_rsi(Slice(ScCloses, n), RSI_PERIOD) = None <=> n < RSI_PERIOD + 1
          /\ calculate_atr(Slice(sc_closed, n), ATR_PERIOD) = None <=> n < ATR_PERIOD + 1
          /\ LET st == calculate_supertrend(Slice(sc_closed, n), ATR_PERIOD, MULTIPLIER)
             IN  IF n < ATR_PERIOD + 1 THEN AllAbsent(st) ELSE NonePresent(st)
    /\ (sc_in.kind = "list" /\ Len(sc_in.rows) < MIN_CANDLES) => sc_out = NoResult

\* A list of 19 rows was fetched and gave no result, although its closed
\* candles are enough for both indicators and the last of them rose by more
\* than the threshold.
C11_Witness ==
    /\ sc_in.kind = "list"
    /\ Len(sc_in.rows) = MIN_CANDLES - 1
    /\ sc_out = NoResult
    /\ calculate_rsi(ScCloses, RSI_PERIOD) # None
    /\ NonePresent(calculate_supertrend(sc_closed, ATR_PERIOD, MULTIPLIER))
    /\ ScPctReached

-----------------------------------------------------------------------------
(* The reported sets and the pool's tasks (checked under Spec).             *)

\* A task of the pool is pending or running, or its future has not been
\* yielded yet.
TaskOutstanding == \E i \in 1..Len(task) : task[i].state # "collected"

ReportedChanges ==
    \/ reported_pumps' # reported_pumps
    \/ reported_breakouts' # reported_breakouts

FreshKeysReported ==
    /\ \A k \in 1..Len(fresh_pumps) : KeyOf(fresh_pumps[k]) \in reported_pumps
    /\ \A k \in 1..Len(fresh_breakouts) : KeyOf(fresh_breakouts[k]) \in reported_breakouts
    /\ \A c \in 1..Len(history) :
          /\ \A k \in 1..Len(history[c].pumps) : history[c].pumps[k] \in reported_pumps
          /\ \A k \in 1..Len(history[c].breakouts) :
                history[c].breakouts[k] \in reported_breakouts

\* C12: tasks are outstanding only inside check_all_symbols; the reported
\* sets change only in the filter step of the coordinating thread, taken
\* when no task of any cycle is outstanding; the tasks of the next cycle are
\* dispatched only after the filter step of the running cycle, with every
\* fresh key of every cycle so far in the reported sets; and no key is ever
\* removed.
C12_ReportedSetsDiscipline ==
    /\ [](TaskOutstanding => pc = "collect")
    /\ [][ReportedChanges =>
            (pc = "filter" /\ pc' = "send_pump" /\ ~TaskOutstanding /\ ~TaskOutstanding')]_vars
    /\ [][(pc = "filter" /\ pc' # "filter") =>
            (fresh_pumps' = FreshOf(pumps, reported_pumps) /\ FreshKeysReported')]_vars
    /\ [][cycle' # cycle =>
            (pc = "scan" /\ Len(history) = cycle /\ FreshKeysReported)]_vars
    /\ [][reported_pumps \subseteq reported_pumps'
            /\ reported_breakouts \subseteq reported_breakouts']_vars

\* The tasks of the second cycle are outstanding while both reported sets
\* hold the keys of the first cycle.
C12_Witness ==
    /\ pc = "collect"
    /\ cycle = 2
    /\ TaskOutstanding
    /\ Len(history) = 1
    /\ history[1].pumps # <<>>
    /\ history[1].breakouts # <<>>
    /\ reported_pumps # {}
    /\ reported_breakouts # {}

-----------------------------------------------------------------------------
(* Progress of the scan loop (checked under SpecLive).                      *)

\* C13: once a non-empty symbol universe is loaded, every cycle is followed
\* by the next one, whatever fails in it.  The cycle counter only grows by
\* one, so this says that the last of the cycles explored is eventually
\* started from every state in which a universe is loaded.
C13_NextCycleStarts ==
    /\ [][cycle' = cycle \/ cycle' = cycle + 1]_vars
    /\ (symbols # <<>>) ~> (cycle = MaxCycles)

\* In the first cycle, after the pump delivery, the breakout delivery has
\* failed on every attempt.
C13_Witness ==
    /\ cycle = 1
    /\ symbols # <<>>
    /\ cycle < MaxCycles
    /\ pc = "telegram_breakout"
    /\ fresh_pumps # <<>>
    /\ send.attempt = MAX_RETRIES
    /\ send.returned = "False"

-----------------------------------------------------------------------------
(* send_telegram (checked under SpecLive).                                  *)

InTelegram == pc \in {"telegram_pump", "telegram_breakout"}

\* C14: send_telegram makes at most max_retries attempts; it returns True
\* exactly on an attempt answered with status 200, which is its last; it
\* returns False exactly when max_retries attempts have all failed, by
\* exception or by another status; it can always take a step until it has
\* returned, and it does return.
C14_BoundedDelivery ==
    /\ [](InTelegram =>
            /\ send.attempt <= MAX_RETRIES
            /\ send.returned = "True" <=> send.status = "200"
            /\ send.returned = "False" <=>
                  (send.status \in {"non200", "exception"} /\ send.attempt = MAX_RETRIES)
            /\ (send.returned = "none" /\ ~send.sleeping) =>
                  \A outcome \in Outcomes : ENABLED TelegramAttempt(outcome)
            /\ send.sleeping => ENABLED TelegramBackoff
            /\ send.returned # "none" => (~send.sleeping /\ ENABLED TelegramReturn))
    /\ [][send.returned \in {"True", "False"} =>
            (pc' = AfterSend /\ send' = NoSend)]_vars
    /\ InTelegram ~> ~InTelegram

\* send_telegram is about to return False after max_retries attempts, the
\* last of them answered with another status than 200.
C14_Witness ==
    /\ InTelegram
    /\ send.attempt = MAX_RETRIES
    /\ send.status = "non200"
    /\ send.returned = "False"

-----------------------------------------------------------------------------
(* Deliveries of a cycle (checked under Spec).                              *)

\* C17: in every cycle send_telegram is called for the pump channel if and
\* only if the cycle's fresh_pumps is not empty, and for the breakout channel
\* if and only if its fresh_breakouts is not empty; attempts are made only
\* inside these calls; each of the two decisions is taken once per cycle,
\* after the cycle's filter step; and a call makes no attempt after the one
\* answered with status 200.
C17_DeliveryIffFresh ==
    /\ [](pc = "telegram_pump" => (fresh_pumps # <<>> /\ send.alert_type = "PUMP"))
    /\ [](pc = "telegram_breakout" =>
            (fresh_breakouts # <<>> /\ send.alert_type = "BREAKOUT"))
    /\ [](~InTelegram => send = NoSend)
    /\ [][(pc = "send_pump" /\ pc' # pc) =>
            IF fresh_pumps # <<>>
            THEN pc' = "telegram_pump" /\ send' = SendCall("PUMP")
            ELSE pc' = "send_breakout" /\ send' = NoSend]_vars
    /\ [][(pc = "send_breakout" /\ pc' # pc) =>
            IF fresh_breakouts # <<>>
            THEN pc' = "telegram_breakout" /\ send' = SendCall("BREAKOUT")
            ELSE pc' = "server_time" /\ send' = NoSend]_vars
    /\ [][(pc' = "telegram_pump" /\ pc # pc') => pc = "send_pump"]_vars
    /\ [][(pc' = "telegram_breakout" /\ pc # pc') => pc = "send_breakout"]_vars
    /\ [][(pc' = "send_pump" /\ pc # pc') =>
            (pc = "filter" /\ Len(history) = cycle - 1 /\ Len(history') = cycle)]_vars
    /\ [][(pc' = "send_breakout" /\ pc # pc') =>
            (pc \in {"send_pump", "telegram_pump"} /\ Len(history) = cycle)]_vars
    /\ [][cycle' # cycle => (pc = "scan" /\ Len(history) = cycle)]_vars
    /\ [][send.status = "200" => send' = NoSend]_vars

\* A cycle with fresh breakouts and no fresh pump: the breakout delivery is
\* being attempted and no pump delivery was.
C17_Witness ==
    /\ pc = "telegram_breakout"
    /\ fresh_pumps = <<>>
    /\ fresh_breakouts # <<>>
    /\ pumps # <<>>
    /\ send.attempt = 1

\* C18 as stated: whenever send_telegram is about to make another attempt
\* after a failed one, time.sleep(2) has ended since the failed attempt; and
\* no wait follows the last attempt.
C18_AsStated ==
    /\ (InTelegram /\ send.attempt >= 1 /\ send.returned = "none" /\ ~send.sleeping)
          => send.waited
    /\ (InTelegram /\ send.returned # "none") => (~send.sleeping /\ ~send.waited)

\* C19: while a delivery is attempted, every key of the cycle's fresh results
\* is in the reported sets; no key leaves the sets, whatever send_telegram
\* returns; and no key of the results a delivery is attempted for was among
\* the fresh results of an earlier cycle, delivered or not.
C19_ReportedBeforeDelivery ==
    /\ [](InTelegram =>
            /\ FreshKeysReported
            /\ Len(history) = cycle
            /\ \A c \in 1..(cycle - 1) :
                  /\ \A k \in 1..Len(fresh_pumps) : \A j \in 1..Len(history[c].pumps) :
                        KeyOf(fresh_pumps[k]) # history[c].pumps[j]
                  /\ \A k \in 1..Len(fresh_breakouts) :
                     \A j \in 1..Len(history[c].breakouts) :
                        KeyOf(fresh_breakouts[k]) # history[c].breakouts[j])
    /\ [][(reported_pumps' # reported_pumps \/ reported_breakouts' # reported_breakouts)
            => (pc = "filter" /\ send = NoSend /\ send' = NoSend)]_vars
    /\ [][InTelegram =>
            (reported_pumps' = reported_pumps /\ reported_breakouts' = reported_breakouts
             /\ fresh_pumps' = fresh_pumps /\ fresh_breakouts' = fresh_breakouts)]_vars
    /\ [][reported_pumps \subseteq reported_pumps'
            /\ reported_breakouts \subseteq reported_breakouts']_vars

\* The pump delivery of a cycle has failed on every attempt while the keys
\* of its results are in reported_pumps; the cycle before reported other keys.
C19_Witness ==
    /\ pc = "telegram_pump"
    /\ cycle = 2
    /\ send.returned = "False"
    /\ history[1].pumps # <<>>
    /\ fresh_pumps # <<>>
    /\ \A k \in 1..Len(fresh_pumps) : KeyOf(fresh_pumps[k]) \in reported_pumps

-----------------------------------------------------------------------------
(* Tightening of the active band (checked under SpecST).                    *)

\* C15 as stated: at consecutive evaluated indices with direction +1 at both
\* the lower band does not fall, and with direction -1 at both the upper band
\* does not rise.
C15_AsStated ==
    StEvaluated =>
        LET L == StLists
        IN  \A k \in 2..Len(L.trend_list) :
              /\ (L.trend_list[k - 1] = 1 /\ L.trend_list[k] = 1) =>
                    L.up_list[k] >= L.up_list[k - 1]
              /\ (L.trend_list[k - 1] = -1 /\ L.trend_list[k] = -1) =>
                    L.dn_list[k] <= L.dn_list[k - 1]

\* C15 amended: at consecutive evaluated indices with direction +1 at both,
\* the lower band does not fall if the close of the earlier index is
\* strictly above its lower band; with direction -1 at both, the upper band
\* does not rise if the close of the earlier index is strictly below its
\* upper band.
C15_TightensWhileBeyondBand ==
    StEvaluated =>
        LET L == StLists
        IN  \A k \in 2..Len(L.trend_list) :
              LET prev_close == Close(At(win, StIdx(k) - 1))
              IN  /\ (L.trend_list[k - 1] = 1 /\ L.trend_list[k] = 1
                        /\ prev_close > L.up_list[k - 1]) =>
                        L.up_list[k] >= L.up_list[k - 1]
                  /\ (L.trend_list[k - 1] = -1 /\ L.trend_list[k] = -1
                        /\ prev_close < L.dn_list[k - 1]) =>
                        L.dn_list[k] <= L.dn_list[k - 1]

\* An uptrend in which a basic lower band below the previous lower band was
\* held up by it, and a downtrend in which a basic upper band above the
\* previous upper band was held down by it.
C15_Witness ==
    /\ StEvaluated
    /\ LET L == StLists
       IN  /\ \E k \in 2..Len(L.trend_list) :
                /\ L.trend_list[k - 1] = 1 /\ L.trend_list[k] = 1
                /\ Close(At(win, StIdx(k) - 1)) > L.up_list[k - 1]
                /\ BasicUp(win, StPeriod, MULTIPLIER, StIdx(k)) < L.up_list[k - 1]
                /\ L.up_list[k] = L.up_list[k - 1]
           /\ \E k \in 2..Len(L.trend_list) :
                /\ L.trend_list[k - 1] = -1 /\ L.trend_list[k] = -1
                /\ Close(At(win, StIdx(k) - 1)) < L.dn_list[k - 1]
                /\ BasicDn(win, StPeriod, MULTIPLIER, StIdx(k)) > L.dn_list[k - 1]
                /\ L.dn_list[k] = L.dn_list[k - 1]

-----------------------------------------------------------------------------
(* The distance to the previous breakout (checked under SpecScan).          *)

\* The indices j before the last closed candle i, at most 249 candles back,
\* at which the direction turned from -1 to +1 according to the engine's
\* lists on the window up to i.
ScEarlierFlips ==
    LET L == ScLists
        i == Len(sc_closed) - 1
    IN  {j \in (ATR_PERIOD + 1)..(i - 1) :
            /\ i - j < Min(LOOKBACK_LIMIT, i)
            /\ L.trend_list[j - ATR_PERIOD] = -1
            /\ L.trend_list[j - ATR_PERIOD + 1] = 1}

\* C16 as stated: an emitted Breakout carries as candles since the last
\* breakout the distance i - j to the most recent earlier flip j, wherever
\* in the window j lies, and 250 only when there is no earlier flip.
C16_AsStated ==
    sc_out.breakout # None =>
        LET i == Len(sc_closed) - 1
            J == ScEarlierFlips
        IN  sc_out.breakout[1].candles_since_last =
                IF J = {}
                THEN LOOKBACK_LIMIT
                ELSE i - (CHOOSE j \in J : \A x \in J : x <= j)

-----------------------------------------------------------------------------
(* The close of a breakout and the old red line (checked under SpecScan).   *)

\* C20: for every emitted Breakout the close of the last closed candle,
\* which is the close the result carries, is strictly greater than the
\* result's old_red_line, the upper band of the index before; so whenever
\* old_red_line is positive, red_distance is strictly positive.
C20_CloseAboveOldRedLine ==
    sc_out.breakout # None =>
        LET b == sc_out.breakout[1]
            L == ScLists
            n == Len(L.trend_list)
        IN  /\ b.close = Close(Last(sc_closed))
            /\ b.old_red_line = L.dn_list[n - 1]
            /\ b.close > b.old_red_line
            /\ b.old_red_line > 0 => b.red_distance > 0

\* A Breakout whose old_red_line is positive and below the close, with a
\* positive red_distance and a negative green line.
C20_Witness ==
    /\ sc_out.breakout # None
    /\ sc_out.breakout[1].old_red_line > 0
    /\ sc_out.breakout[1].close > sc_out.breakout[1].old_red_line
    /\ sc_out.breakout[1].red_distance > 0
    /\ sc_out.breakout[1].new_green_line < 0

=============================================================================
